---- MODULE Spec2Model ----
(***************************************************************************)
(* Model of src/agent.py (JiraSlackAgent): startup, the Slack "message"    *)
(* event handler and the pipeline it runs for one inbound message          *)
(* (classification, user lookup, issue creation, status transition,        *)
(* notification).  Every external call is one step whose outcome (a        *)
(* return value or an exception) is chosen by the environment.             *)
(***************************************************************************)
EXTENDS Integers, Sequences, FiniteSets, TLC

\* ------------------------------------------------------------------ bounds
\* number of inbound events delivered in one run
MaxEvents == 2
\* longest list of transitions the tracker returns
MaxTransitions == 2

\* ----------------------------------------------------------- configuration
\* config['ai']['confidence_threshold'], in tenths (7 is 0.7)
confidence_threshold == 7
monitored_channels == {"bugs"}
notification_channel == "jira-notifications"
project_key == "PROJ"
default_issue_type == "Task"
default_priority == "Medium"
\* Python's None, where a string is expected
None == "None"

\* ------------------------------------------------------------- environment
\* the secrets os.getenv reads
Secrets ==
  {"SLACK_BOT_TOKEN", "SLACK_SIGNING_SECRET", "SLACK_APP_TOKEN",
   "JIRA_EMAIL", "JIRA_API_TOKEN", "ANTHROPIC_API_KEY"}

\* channel ids the platform knows, and the names conversations_info gives
ChannelIds == {"C1", "C2"}
ChannelNameOf(id) == IF id = "C1" THEN "bugs" ELSE "random"
Timestamps == {1, 2}

\* the inbound event of the Slack "message" subscription; the channel that
\* is not monitored has one message, the monitored one has two
Events ==
  { e \in [subtype : BOOLEAN, bot_id : BOOLEAN, channel : ChannelIds,
           user : {"U1"}, ts : Timestamps] : e.channel = "C2" => e.ts = 1 }
NoEvent == [subtype |-> FALSE, bot_id |-> FALSE, channel |-> "C1",
            user |-> "U1", ts |-> 0]
\* a message is identified by its channel and timestamp
MsgOf(e) == <<e.channel, e.ts>>
Messages == { MsgOf(e) : e \in Events }
\* event.get('text', ''): a text is modelled by its length in characters, and
\* the text of a message is fixed by the message
TextOf(e) == IF e.ts = 1 THEN 200 ELSE 201

\* ------------------------------------------------- the classifier response
\* dict.get(key, default)
Get(d, k, default) == IF k \in DOMAIN d THEN d[k] ELSE default
Restrict(d, S) == [k \in S |-> d[k]]

VerdictKeys ==
  {"should_create_ticket", "confidence", "issue_type", "summary",
   "description", "priority", "reasoning"}
\* a confidence is a JSON number (in tenths) or a JSON string
Confidences == {[num |-> 5], [num |-> 7], [num |-> 9], [str |-> "high"]}
FullVerdicts ==
  { [k \in VerdictKeys |->
       CASE k = "should_create_ticket" -> s
         [] k = "confidence" -> c
         [] k = "issue_type" -> "Bug"
         [] k = "summary" -> "Export button returns 500"
         [] k = "description" -> "Export fails"
         [] k = "priority" -> "High"
         [] OTHER -> "why"] : s \in BOOLEAN, c \in Confidences }
\* the keys a response may leave out
OmittedKeys ==
  { {}, {"issue_type"}, {"priority"}, {"issue_type", "priority"},
    {"summary"}, {"confidence"}, {"should_create_ticket"} }
\* a summary that itself contains a triple backtick
FencedSummary == "Wrap the log in FENCE fences"
\* a verdict whose summary contains a triple backtick
FencedVerdict ==
  [k \in VerdictKeys |->
     CASE k = "should_create_ticket" -> TRUE
       [] k = "confidence" -> [num |-> 9]
       [] k = "issue_type" -> "Bug"
       [] k = "summary" -> FencedSummary
       [] k = "description" -> "Export fails"
       [] k = "priority" -> "High"
       [] OTHER -> "why"]
\* the JSON objects the model may answer with: the complete ones, the ones
\* of confidence 0.9 with keys left out, and the one with backticks
Verdicts ==
  FullVerdicts \cup
  { Restrict(v, VerdictKeys \ o) :
      v \in { f \in FullVerdicts : f.confidence = [num |-> 9] },
      o \in OmittedKeys } \cup
  {FencedVerdict}

\* The response text is a sequence of tokens: FENCE is a triple backtick,
\* WS is white space, json is the language tag, OBJ is the serialised JSON
\* object of a payload without backticks, OBJ_HEAD FENCE OBJ_TAIL that of a
\* payload with a triple backtick inside a string, ARR is a JSON array, JUNK
\* is text that is not JSON.
Tokens == {"FENCE", "WS", "json", "OBJ", "OBJ_HEAD", "OBJ_TAIL", "ARR", "JUNK"}
\* the JSON text of a payload
Serialise(v) ==
  IF "summary" \in DOMAIN v /\ v.summary = FencedSummary
  THEN <<"OBJ_HEAD", "FENCE", "OBJ_TAIL">>
  ELSE <<"OBJ">>
\* the payload text wrapped in a code fence, without and with a language tag
FencedTexts(body) ==
  { <<"FENCE", "WS">> \o body \o <<"WS", "FENCE">>,
    <<"FENCE", "json", "WS">> \o body \o <<"WS", "FENCE">> }
\* the texts the model may answer with, for a payload text
ResponseTexts(body) ==
  { body, <<"WS">> \o body \o <<"WS">> } \cup FencedTexts(body) \cup
  { <<"ARR">>, <<"JUNK">>, <<"JUNK">> \o body, <<>> }
\* what anthropic_client.messages.create yields: an exception, a response
\* with an empty content list, or a response whose first block is text
Responses ==
  { [kind |-> "raise"], [kind |-> "empty"] } \cup
  UNION { { [kind |-> "text", text |-> t, payload |-> v] :
              t \in ResponseTexts(Serialise(v)) } : v \in Verdicts }
NoResponse == [kind |-> "none"]

RECURSIVE LStrip(_)
LStrip(s) == IF s # <<>> /\ Head(s) = "WS" THEN LStrip(Tail(s)) ELSE s
RECURSIVE RStrip(_)
RStrip(s) ==
  IF s # <<>> /\ s[Len(s)] = "WS" THEN RStrip(SubSeq(s, 1, Len(s) - 1)) ELSE s
\* str.strip()
Strip(s) == RStrip(LStrip(s))

RECURSIVE UpToFence(_)
UpToFence(s) ==
  IF s = <<>> \/ Head(s) = "FENCE" THEN <<>>
  ELSE <<Head(s)>> \o UpToFence(Tail(s))
\* response_text.split('```')[1], for a text that starts with a fence
SplitFence1(s) == UpToFence(Tail(s))

\* lines 224-228: remove markdown code blocks if present
StripCodeBlock(s) ==
  IF s # <<>> /\ Head(s) = "FENCE"
  THEN LET seg == SplitFence1(s)
           untagged == IF seg # <<>> /\ Head(seg) = "json" THEN Tail(seg) ELSE seg
       IN Strip(untagged)
  ELSE s

\* json.loads: "object" with the payload, "other" for JSON that is not an
\* object, "error" when the text is not JSON
JsonLoads(s, payload) ==
  LET t == Strip(s)
  IN IF t = Serialise(payload) THEN [kind |-> "object", value |-> payload]
     ELSE IF t = <<"ARR">> THEN [kind |-> "other"]
     ELSE [kind |-> "error"]

\* ticket_info when _analyze_message returns None for it
NoTicketInfo == [none |-> None]

\* PassesThreshold with a strict comparison
PassesThreshold_Strict(confidence) == confidence > confidence_threshold

\* line 235: the comparison of a numeric confidence with the threshold
PassesThreshold(confidence) == confidence >= confidence_threshold

\* TicketInfo that takes the issue type from the configuration only
TicketInfo_DefaultType(d) ==
  [summary |-> Get(d, "summary", None),
   description |-> Get(d, "description", None),
   issue_type |-> default_issue_type,
   priority |-> Get(d, "priority", default_priority)]

\* TicketInfo that returns no payload with the true flag
TicketInfo_Missing(d) == NoTicketInfo

\* lines 241-246: the payload returned with a true flag
TicketInfo(d) ==
  [summary |-> Get(d, "summary", None),
   description |-> Get(d, "description", None),
   issue_type |-> Get(d, "issue_type", default_issue_type),
   priority |-> Get(d, "priority", default_priority)]

\* the exceptions lines 211-235 can raise
AnalysisExceptions ==
  {"APIError", "IndexError", "JSONDecodeError", "AttributeError", "TypeError"}
\* CaughtInAnalysis with a handler for JSON errors only
CaughtInAnalysis_JsonOnly(exc) == exc = "JSONDecodeError"

\* line 250: except Exception
CaughtInAnalysis(exc) == exc \in AnalysisExceptions

\* _analyze_message, lines 210-248, from the outcome of the model call on:
\* the parsed result, the pair it returns, and the exception raised if any
AnalyzeMessage(r) ==
  LET raises(res, exc) == [result |-> res, should_create |-> FALSE,
                           ticket_info |-> NoTicketInfo, raised |-> exc]
      returns(res, flag, info) == [result |-> res, should_create |-> flag,
                                   ticket_info |-> info, raised |-> None]
  IN
  IF r.kind = "raise" THEN raises([kind |-> "raise"], "APIError")
  ELSE IF r.kind = "empty" THEN raises([kind |-> "empty"], "IndexError")
  ELSE
    LET response_text == StripCodeBlock(Strip(r.text))
        result == JsonLoads(response_text, r.payload)
    IN
    IF result.kind = "error" THEN raises(result, "JSONDecodeError")
    ELSE IF result.kind = "other" THEN raises(result, "AttributeError")
    ELSE
      LET d == result.value
          flag == Get(d, "should_create_ticket", FALSE)
          conf == Get(d, "confidence", [num |-> 0])
      IN
      IF ~flag THEN returns(result, FALSE, NoTicketInfo)
      ELSE IF "num" \notin DOMAIN conf THEN raises(result, "TypeError")
      ELSE IF PassesThreshold(conf.num)
      THEN returns(result, TRUE, TicketInfo(d))
      ELSE returns(result, FALSE, NoTicketInfo)

\* ------------------------------------------------------------- the tracker
Statuses == {"Backlog", "To Do"}
\* config['jira'].get('initial_status'): absent, or a status name
InitialStatuses == {None, "To Do"}
TransitionSet ==
  { [id |-> 11, to |-> "To Do"], [id |-> 21, to |-> "In Progress"],
    [id |-> 31, to |-> "To Do"] }
\* the lists jira_client.transitions may return
TransitionLists ==
  UNION { [1..n -> TransitionSet] : n \in 0..MaxTransitions }
NoIssue == [key |-> 0, status |-> None]
NoTransition == [id |-> 0, to |-> None]

\* FindTransition without the break: the last listed match wins
RECURSIVE FindTransition_Last(_, _)
FindTransition_Last(ts, desired_status) ==
  IF ts = <<>> THEN NoTransition
  ELSE IF ts[Len(ts)].to = desired_status THEN ts[Len(ts)]
  ELSE FindTransition_Last(SubSeq(ts, 1, Len(ts) - 1), desired_status)

\* lines 327-331: the first listed transition that leads to desired_status
RECURSIVE FindTransition(_, _)
FindTransition(ts, desired_status) ==
  IF ts = <<>> THEN NoTransition
  ELSE IF Head(ts).to = desired_status THEN Head(ts)
  ELSE FindTransition(Tail(ts), desired_status)

\* Available that names the first transition only
Available_FirstOnly(ts) == IF ts = <<>> THEN <<>> ELSE <<ts[1].to>>

\* line 338: available = [t['to']['name'] for t in transitions]
Available(ts) == [i \in 1..Len(ts) |-> ts[i].to]

\* what client.users_info yields: a user record with or without an email
\* in its profile, or an exception
UserInfos ==
  { [ok |-> TRUE, real_name |-> "Ann", email |-> "ann@example.com"],
    [ok |-> TRUE, real_name |-> "Ann", email |-> None],
    [ok |-> FALSE, real_name |-> None, email |-> None] }
NoUser == [name |-> None, email |-> None]

\* lines 265-287: the fields of the issue-create call
IssueDict(info, reporter_name, reporter_email, slack_channel, slack_message) ==
  [project |-> project_key,
   summary |-> info.summary,
   description |->
     [reporter_name |-> reporter_name, reporter_email |-> reporter_email,
      slack_channel |-> slack_channel, slack_message |-> slack_message,
      ai_description |-> info.description],
   issuetype |-> info.issue_type,
   priority |-> info.priority]

\* ------------------------------------------------------------------- state
VARIABLES
  env,             \* the secrets present in the process environment
  initial_status,  \* config['jira'].get('initial_status')
  pc,              \* the position of the process
  clients,         \* the remote clients constructed so far
  startup_error,   \* the ValueError startup ended with, or None
  event,           \* the event being handled
  channel_name,    \* handle_message: the resolved channel name
  response,        \* _analyze_message: the outcome of the model call
  result,          \* _analyze_message: the parsed response of this event
  should_create,   \* _process_message: the flag _analyze_message returned
  ticket_info,     \* _process_message: the payload _analyze_message returned
  user,            \* _process_message: user_name and user_email
  issue,           \* the in-memory issue returned by create_issue
  current_status,  \* _set_issue_status: the status read after the refresh
  target,          \* _set_issue_status: target_transition
  calls,           \* the external calls made for this event, in order
  log,             \* the error and warning records logged for this event
  escaped,         \* an exception left handle_message for this event
  created,         \* per message, the issues the tracker holds for it
  deliveries       \* per message, the events delivered for it

startup == <<env, initial_status, clients, startup_error>>
vars ==
  <<env, initial_status, pc, clients, startup_error, event, channel_name,
    response, result, should_create, ticket_info, user, issue,
    current_status, target, calls, log, escaped, created, deliveries>>

RECURSIVE SumOver(_, _)
SumOver(f, S) ==
  IF S = {} THEN 0
  ELSE LET x == CHOOSE y \in S : TRUE IN f[x] + SumOver(f, S \ {x})
Delivered == SumOver(deliveries, Messages)
Issues == SumOver(created, Messages)

Init ==
  /\ env \in SUBSET Secrets
  /\ initial_status \in InitialStatuses
  /\ pc = "init_slack"
  /\ clients = {}
  /\ startup_error = None
  /\ event = NoEvent
  /\ channel_name = None
  /\ response = NoResponse
  /\ result = [kind |-> "none"]
  /\ should_create = FALSE
  /\ ticket_info = NoTicketInfo
  /\ user = NoUser
  /\ issue = NoIssue
  /\ current_status = None
  /\ target = NoTransition
  /\ calls = <<>>
  /\ log = <<>>
  /\ escaped = FALSE
  /\ created = [m \in Messages |-> 0]
  /\ deliveries = [m \in Messages |-> 0]

\* ----------------------------------------------------------------- startup
handler == <<event, channel_name, response, result, should_create,
             ticket_info, user, issue, current_status, target, calls, log,
             escaped, created, deliveries>>

\* lines 65-75
InitSlack ==
  /\ pc = "init_slack"
  /\ IF {"SLACK_BOT_TOKEN", "SLACK_SIGNING_SECRET"} \subseteq env
     THEN /\ clients' = clients \cup {"slack_app"}
          /\ pc' = "init_jira"
          /\ UNCHANGED startup_error
     ELSE /\ startup_error' = "SLACK_BOT_TOKEN and SLACK_SIGNING_SECRET must be set"
          /\ pc' = "failed"
          /\ UNCHANGED clients
  /\ UNCHANGED <<env, initial_status, handler>>

\* InitJira that constructs the client without checking its secrets
InitJira_Unchecked ==
  /\ pc = "init_jira"
  /\ clients' = clients \cup {"jira"}
  /\ pc' = "init_anthropic"
  /\ UNCHANGED <<env, initial_status, startup_error, handler>>

\* lines 77-91
InitJira ==
  /\ pc = "init_jira"
  /\ IF {"JIRA_EMAIL", "JIRA_API_TOKEN"} \subseteq env
     THEN /\ clients' = clients \cup {"jira"}
          /\ pc' = "init_anthropic"
          /\ UNCHANGED startup_error
     ELSE /\ startup_error' = "JIRA_EMAIL and JIRA_API_TOKEN must be set"
          /\ pc' = "failed"
          /\ UNCHANGED clients
  /\ UNCHANGED <<env, initial_status, handler>>

\* lines 93-102, and the registration of the handler, lines 44-47
InitAnthropic ==
  /\ pc = "init_anthropic"
  /\ IF "ANTHROPIC_API_KEY" \in env
     THEN /\ clients' = clients \cup {"anthropic"}
          /\ pc' = "start"
          /\ UNCHANGED startup_error
     ELSE /\ startup_error' = "ANTHROPIC_API_KEY must be set"
          /\ pc' = "failed"
          /\ UNCHANGED clients
  /\ UNCHANGED <<env, initial_status, handler>>

\* lines 387-400
Start ==
  /\ pc = "start"
  /\ IF "SLACK_APP_TOKEN" \in env
     THEN /\ clients' = clients \cup {"socket_mode"}
          /\ pc' = "listening"
          /\ UNCHANGED startup_error
     ELSE /\ startup_error' = "SLACK_APP_TOKEN must be set"
          /\ pc' = "failed"
          /\ UNCHANGED clients
  /\ UNCHANGED <<env, initial_status, handler>>

\* ------------------------------------------------------- the event handler
Call(c) == calls' = Append(calls, c)
Log(l) == log' = Append(log, l)
Outcome(ok) == IF ok THEN "ok" ELSE "raise"
ProcessingError == [level |-> "error", msg |-> "Error processing message"]
AnalysisError == [level |-> "error", msg |-> "Error in AI analysis"]
NotificationError == [level |-> "error", msg |-> "Error sending notification"]
StatusError(key) ==
  [level |-> "error", msg |-> "Error setting status", key |-> key]

\* Ignored that forgets the bot identity
Ignored_SubtypeOnly(e) == e.subtype

\* line 110: events with a subtype or a bot identity are ignored
Ignored(e) == e.subtype \/ e.bot_id

\* lines 107-111: an event is delivered; the ignored ones are dropped
HandleMessage(e) ==
  /\ pc = "listening"
  /\ Delivered < MaxEvents
  /\ event' = e
  /\ deliveries' = [deliveries EXCEPT ![MsgOf(e)] = @ + 1]
  /\ channel_name' = None
  /\ response' = NoResponse
  /\ result' = [kind |-> "none"]
  /\ should_create' = FALSE
  /\ ticket_info' = NoTicketInfo
  /\ user' = NoUser
  /\ issue' = NoIssue
  /\ current_status' = None
  /\ target' = NoTransition
  /\ calls' = <<>>
  /\ log' = <<>>
  /\ escaped' = FALSE
  /\ pc' = IF Ignored(e) THEN "listening" ELSE "conversations_info"
  /\ UNCHANGED <<startup, created>>

\* lines 113-123: the channel lookup and the monitored-channel test; an
\* exception of the lookup is not caught in handle_message
ConversationsInfo ==
  /\ pc = "conversations_info"
  /\ \E ok \in BOOLEAN :
       /\ Call([op |-> "conversations_info", channel |-> event.channel,
                result |-> Outcome(ok)])
       /\ IF ok
          THEN /\ channel_name' = ChannelNameOf(event.channel)
               /\ pc' = IF channel_name' \in monitored_channels
                        THEN "messages_create" ELSE "listening"
               /\ UNCHANGED escaped
          ELSE /\ escaped' = TRUE
               /\ pc' = "listening"
               /\ UNCHANGED channel_name
  /\ UNCHANGED <<startup, event, response, result, should_create, ticket_info,
                 user, issue, current_status, target, log, created, deliveries>>

\* lines 211-218: the call of the language model
MessagesCreate ==
  /\ pc = "messages_create"
  /\ \E r \in Responses :
       /\ response' = r
       /\ Call([op |-> "messages_create", message_text |-> TextOf(event),
                result |-> Outcome(r.kind # "raise")])
  /\ pc' = "parse"
  /\ UNCHANGED <<startup, event, channel_name, result, should_create,
                 ticket_info, user, issue, current_status, target, log,
                 escaped, created, deliveries>>

\* lines 220-252 and 135-137, 166-170: the response is parsed and gated, and
\* _process_message branches on the flag; an exception _analyze_message does
\* not catch reaches the except branch of _process_message
ParseResponse ==
  /\ pc = "parse"
  /\ LET a == AnalyzeMessage(response)
     IN /\ result' = a.result
        /\ should_create' = a.should_create
        /\ ticket_info' = a.ticket_info
        /\ log' = IF a.raised = None THEN log
                  ELSE IF CaughtInAnalysis(a.raised)
                  THEN Append(log, AnalysisError)
                  ELSE Append(log, ProcessingError)
        /\ pc' = IF a.should_create THEN "users_info" ELSE "listening"
  /\ response' = NoResponse
  /\ UNCHANGED <<startup, event, channel_name, user, issue, current_status,
                 target, calls, escaped, created, deliveries>>

\* lines 140-143
UsersInfo ==
  /\ pc = "users_info"
  /\ \E u \in UserInfos :
       /\ Call([op |-> "users_info", user |-> event.user,
                result |-> Outcome(u.ok)])
       /\ IF u.ok
          THEN /\ user' = [name |-> u.real_name,
                           email |-> IF u.email = None THEN "unknown" ELSE u.email]
               /\ pc' = "create_issue"
               /\ UNCHANGED log
          ELSE /\ Log(ProcessingError)
               /\ pc' = "listening"
               /\ UNCHANGED user
  /\ UNCHANGED <<startup, event, channel_name, response, result, should_create,
                 ticket_info, issue, current_status, target, escaped, created,
                 deliveries>>

\* AfterCreate that submits the issue again
AfterCreate_Again(desired_status) == "create_issue"

\* lines 299-304, 154: after the create call returned, the status step when
\* an initial status is configured, the notification otherwise
AfterCreate(desired_status) ==
  IF desired_status # None THEN "issue" ELSE "post_broadcast"

\* lines 146-152, 265-304: the issue-create call; the tracker may reject the
\* priority field, or fail otherwise
CreateIssue ==
  /\ pc = "create_issue"
  /\ \E out \in {"ok", "priority_rejected", "raise"}, s \in Statuses :
       /\ Call([op |-> "create_issue",
                fields |-> IssueDict(ticket_info, user.name, user.email,
                                     channel_name, TextOf(event)),
                status |-> IF out = "ok" THEN s ELSE None,
                result |-> out])
       /\ IF out = "ok"
          THEN /\ created' = [created EXCEPT ![MsgOf(event)] = @ + 1]
               /\ issue' = [key |-> Issues + 1, status |-> s]
               /\ pc' = AfterCreate(initial_status)
               /\ UNCHANGED log
          ELSE /\ Log(ProcessingError)
               /\ pc' = "listening"
               /\ UNCHANGED <<created, issue>>
  /\ UNCHANGED <<startup, event, channel_name, response, result, should_create,
                 ticket_info, user, current_status, target, escaped, deliveries>>

\* IssueRefresh that compares the status of the in-memory issue
IssueRefresh_Stale ==
  /\ pc = "issue"
  /\ \E ok \in BOOLEAN, s \in Statuses :
       /\ Call([op |-> "issue", key |-> issue.key,
                status |-> IF ok THEN s ELSE None, result |-> Outcome(ok)])
       /\ IF ok
          THEN /\ current_status' = issue.status
               /\ pc' = IF current_status' = initial_status
                        THEN "post_broadcast" ELSE "transitions"
               /\ UNCHANGED <<issue, log>>
          ELSE /\ Log(StatusError(issue.key))
               /\ pc' = "post_broadcast"
               /\ UNCHANGED <<issue, current_status>>
  /\ UNCHANGED <<startup, event, channel_name, response, result, should_create,
                 ticket_info, user, target, escaped, created, deliveries>>

\* lines 314-321: the issue is fetched again and its status compared
IssueRefresh ==
  /\ pc = "issue"
  /\ \E ok \in BOOLEAN, s \in Statuses :
       /\ Call([op |-> "issue", key |-> issue.key,
                status |-> IF ok THEN s ELSE None, result |-> Outcome(ok)])
       /\ IF ok
          THEN /\ issue' = [issue EXCEPT !.status = s]
               /\ current_status' = s
               /\ pc' = IF current_status' = initial_status
                        THEN "post_broadcast" ELSE "transitions"
               /\ UNCHANGED log
          ELSE /\ Log(StatusError(issue.key))
               /\ pc' = "post_broadcast"
               /\ UNCHANGED <<issue, current_status>>
  /\ UNCHANGED <<startup, event, channel_name, response, result, should_create,
                 ticket_info, user, target, escaped, created, deliveries>>

\* lines 323-343: the available transitions are listed and searched
Transitions ==
  /\ pc = "transitions"
  /\ \E ok \in BOOLEAN, ts \in TransitionLists :
       /\ Call([op |-> "transitions", key |-> issue.key,
                returned |-> IF ok THEN ts ELSE <<>>, result |-> Outcome(ok)])
       /\ IF ok
          THEN /\ target' = FindTransition(ts, initial_status)
               /\ IF target' # NoTransition
                  THEN /\ pc' = "transition_issue"
                       /\ UNCHANGED log
                  ELSE /\ Log([level |-> "warning", msg |-> "Cannot transition",
                               key |-> issue.key, desired |-> initial_status,
                               current |-> current_status,
                               available |-> Available(ts)])
                       /\ pc' = "post_broadcast"
          ELSE /\ Log(StatusError(issue.key))
               /\ pc' = "post_broadcast"
               /\ UNCHANGED target
  /\ UNCHANGED <<startup, event, channel_name, response, result, should_create,
                 ticket_info, user, issue, current_status, escaped, created,
                 deliveries>>

\* TransitionIssue outside the try block of _set_issue_status: its exception
\* reaches the except branch of _process_message
TransitionIssue_Uncaught ==
  /\ pc = "transition_issue"
  /\ \E ok \in BOOLEAN :
       /\ Call([op |-> "transition_issue", key |-> issue.key,
                id |-> target.id, result |-> Outcome(ok)])
       /\ log' = IF ok THEN log ELSE Append(log, ProcessingError)
       /\ pc' = IF ok THEN "post_broadcast" ELSE "listening"
  /\ UNCHANGED <<startup, event, channel_name, response, result, should_create,
                 ticket_info, user, issue, current_status, target, escaped,
                 created, deliveries>>

\* lines 333-335, 345-346
TransitionIssue ==
  /\ pc = "transition_issue"
  /\ \E ok \in BOOLEAN :
       /\ Call([op |-> "transition_issue", key |-> issue.key,
                id |-> target.id, result |-> Outcome(ok)])
       /\ log' = IF ok THEN log ELSE Append(log, StatusError(issue.key))
  /\ pc' = "post_broadcast"
  /\ UNCHANGED <<startup, event, channel_name, response, result, should_create,
                 ticket_info, user, issue, current_status, target, escaped,
                 created, deliveries>>

\* line 365: original_message[:200] and the ellipsis
ExcerptLimit == 200
\* Excerpt that adds the ellipsis from the limit on
Excerpt_Inclusive(message_len) ==
  [shown |-> IF message_len > ExcerptLimit THEN ExcerptLimit ELSE message_len,
   ellipsis |-> message_len >= ExcerptLimit]

Excerpt(message_len) ==
  [shown |-> IF message_len > ExcerptLimit THEN ExcerptLimit ELSE message_len,
   ellipsis |-> message_len > ExcerptLimit]

\* AfterBroadcast that goes on to the reply whatever the first post did
AfterBroadcast_Continue(ok) == "post_reply"

\* lines 367-385: both posts share one try block, so the reply is posted
\* only when the first post returned
AfterBroadcast(ok) == IF ok THEN "post_reply" ELSE "listening"

\* PostBroadcast outside the try block: its exception reaches the except
\* branch of _process_message
PostBroadcast_Uncaught ==
  /\ pc = "post_broadcast"
  /\ \E ok \in BOOLEAN :
       /\ Call([op |-> "chat_postMessage", channel |-> notification_channel,
                thread_ts |-> 0,
                text |-> [kind |-> "broadcast", issue_key |-> issue.key,
                          from |-> channel_name, by |-> event.user,
                          excerpt |-> Excerpt(TextOf(event))],
                result |-> Outcome(ok)])
       /\ log' = IF ok THEN log ELSE Append(log, ProcessingError)
       /\ pc' = AfterBroadcast(ok)
  /\ UNCHANGED <<startup, event, channel_name, response, result, should_create,
                 ticket_info, user, issue, current_status, target, escaped,
                 created, deliveries>>

\* lines 359-373, 384-385: the post to the notification channel
PostBroadcast ==
  /\ pc = "post_broadcast"
  /\ \E ok \in BOOLEAN :
       /\ Call([op |-> "chat_postMessage", channel |-> notification_channel,
                thread_ts |-> 0,
                text |-> [kind |-> "broadcast", issue_key |-> issue.key,
                          from |-> channel_name, by |-> event.user,
                          excerpt |-> Excerpt(TextOf(event))],
                result |-> Outcome(ok)])
       /\ log' = IF ok THEN log ELSE Append(log, NotificationError)
       /\ pc' = AfterBroadcast(ok)
  /\ UNCHANGED <<startup, event, channel_name, response, result, should_create,
                 ticket_info, user, issue, current_status, target, escaped,
                 created, deliveries>>

\* ThreadAnchor that leaves the reply unanchored
ThreadAnchor_None(e) == 0

\* lines 129, 162, 378: thread_ts is the timestamp of the original message
ThreadAnchor(e) == e.ts

\* PostReply outside the try block: its exception leaves the handler
PostReply_Uncaught ==
  /\ pc = "post_reply"
  /\ \E ok \in BOOLEAN :
       /\ Call([op |-> "chat_postMessage", channel |-> channel_name,
                thread_ts |-> ThreadAnchor(event),
                text |-> [kind |-> "reply", issue_key |-> issue.key],
                result |-> Outcome(ok)])
       /\ escaped' = ~ok
  /\ pc' = "listening"
  /\ UNCHANGED <<startup, event, channel_name, response, result, should_create,
                 ticket_info, user, issue, current_status, target, log,
                 created, deliveries>>

\* lines 375-385: the reply in the thread of the original message
PostReply ==
  /\ pc = "post_reply"
  /\ \E ok \in BOOLEAN :
       /\ Call([op |-> "chat_postMessage", channel |-> channel_name,
                thread_ts |-> ThreadAnchor(event),
                text |-> [kind |-> "reply", issue_key |-> issue.key],
                result |-> Outcome(ok)])
       /\ log' = IF ok THEN log ELSE Append(log, NotificationError)
  /\ pc' = "listening"
  /\ UNCHANGED <<startup, event, channel_name, response, result, should_create,
                 ticket_info, user, issue, current_status, target, escaped,
                 created, deliveries>>

Next ==
  \/ InitSlack
  \/ InitJira
  \/ InitAnthropic
  \/ Start
  \/ \E e \in Events : HandleMessage(e)
  \/ ConversationsInfo
  \/ MessagesCreate
  \/ ParseResponse
  \/ UsersInfo
  \/ CreateIssue
  \/ IssueRefresh
  \/ Transitions
  \/ TransitionIssue
  \/ PostBroadcast
  \/ PostReply

Spec == Init /\ [][Next]_vars

\* ================================================================== claims
CallsOf(op) == { i \in 1..Len(calls) : calls[i].op = op }
Creates == CallsOf("create_issue")
Posts == CallsOf("chat_postMessage")
Failed(i) == calls[i].result # "ok"
\* the handling of the current event has ended
EventDone == pc = "listening" /\ event # NoEvent
\* the classifier answered with a JSON object
Parsed == result.kind = "object"
\* the parsed verdict has should_create_ticket true
VerdictFlag == Parsed /\ Get(result.value, "should_create_ticket", FALSE)
\* the parsed verdict has a numeric confidence >= the threshold
VerdictConfident ==
  /\ Parsed
  /\ "confidence" \in DOMAIN result.value
  /\ "num" \in DOMAIN result.value.confidence
  /\ result.value.confidence.num >= confidence_threshold
\* the parsed verdict has a confidence that is not a number
VerdictConfidenceNotNumeric ==
  /\ Parsed
  /\ "confidence" \in DOMAIN result.value
  /\ "num" \notin DOMAIN result.value.confidence

\* C1: an issue-create call is made only if the parsed verdict has
\* should_create_ticket true and confidence >= the threshold, a confidence
\* equal to the threshold admits, and when the flag is false or the
\* confidence is below the threshold there is no issue-create call and no
\* notification post for the message.
C1_GateOnly ==
  /\ Creates # {} => VerdictFlag /\ VerdictConfident
  /\ result.kind # "none" =>
       (should_create <=> VerdictFlag /\ VerdictConfident)
  /\ ~(VerdictFlag /\ VerdictConfident) => Creates = {} /\ Posts = {}

C1_Witness ==
  /\ Creates # {}
  /\ Posts # {}
  /\ VerdictFlag
  /\ result.value.confidence.num = confidence_threshold

\* the fields of create call i are those of the verdict, with the configured
\* defaults for an issue type or a priority the verdict does not carry
FieldsMatchVerdict(i) ==
  LET f == calls[i].fields
      d == result.value
  IN /\ "summary" \in DOMAIN d => f.summary = d.summary
     /\ "description" \in DOMAIN d => f.description.ai_description = d.description
     /\ f.issuetype = IF "issue_type" \in DOMAIN d THEN d.issue_type
                      ELSE default_issue_type
     /\ f.priority = IF "priority" \in DOMAIN d THEN d.priority
                     ELSE default_priority

\* C2 as stated: for every admitted message whose verdict passes the gate,
\* exactly one issue-create call is made, with the verdict's fields.
C2_Original ==
  EventDone /\ VerdictFlag /\ VerdictConfident =>
    /\ Cardinality(Creates) = 1
    /\ \A i \in Creates : FieldsMatchVerdict(i)

UserLookupSucceeded ==
  \E i \in CallsOf("users_info") : ~Failed(i)

\* C2 amended: for every admitted message whose verdict passes the gate, at
\* most one issue-create call is made, every such call carries the verdict's
\* summary, description, issue type and priority (the configured defaults
\* for an absent issue type or priority), and exactly one is made when the
\* lookup of the author succeeded; when that lookup fails, none is made.
C2_OneCreateAfterUserLookup ==
  VerdictFlag /\ VerdictConfident =>
    /\ Cardinality(Creates) <= 1
    /\ \A i \in Creates : FieldsMatchVerdict(i)
    /\ EventDone => (Cardinality(Creates) = 1 <=> UserLookupSucceeded)

C2_Witness ==
  /\ EventDone
  /\ VerdictFlag /\ VerdictConfident
  /\ Cardinality(Creates) = 1
  /\ "issue_type" \notin DOMAIN result.value
  /\ "priority" \in DOMAIN result.value

\* C3 as stated: at most one issue is created for the same inbound message,
\* also when its event is delivered more than once.
C3_Original == \A m \in Messages : created[m] <= 1

\* C3 amended: at most one issue is created per delivered event; no store of
\* handled messages exists, so a message whose event is delivered n times can
\* get up to n issues, and never more.
C3_OnePerDelivery ==
  /\ Cardinality(Creates) <= 1
  /\ Cardinality({ i \in Creates : ~Failed(i) }) <= 1
  /\ \A m \in Messages : created[m] <= deliveries[m]

C3_Witness ==
  \E m \in Messages : deliveries[m] = 2 /\ created[m] = 2

\* C4: for an event that carries a subtype or a bot identity no call at all
\* is made (not even the channel lookup), and for an event whose resolved
\* channel name is not monitored the channel lookup is the only call: the
\* classifier, the user lookup, the tracker and the notification are never
\* invoked.
C4_FilteredEventsMakeNoCalls ==
  /\ event.subtype \/ event.bot_id => calls = <<>>
  /\ ChannelNameOf(event.channel) \notin monitored_channels =>
       \A i \in 1..Len(calls) : calls[i].op = "conversations_info"
  /\ calls # <<>> => calls[1].op = "conversations_info"

C4_Witness ==
  /\ EventDone
  /\ ~event.subtype /\ ~event.bot_id
  /\ channel_name = "random"
  /\ Len(calls) = 1

\* C5: for every failure inside classification (the model call raises, the
\* content is empty, the text is not JSON, the JSON is not an object, a
\* confidence that is not a number is compared) _analyze_message returns
\* (False, None) and logs the error; nothing reaches the except branch of
\* _process_message and no issue or notification results.
C5_AnalysisFailuresAbsorbed ==
  /\ \/ result.kind \in {"raise", "empty", "error", "other"}
     \/ VerdictFlag /\ VerdictConfidenceNotNumeric
     => /\ ~should_create
        /\ ticket_info = NoTicketInfo
        /\ log = <<AnalysisError>>
        /\ ~escaped
        /\ Creates = {} /\ Posts = {}
        /\ pc = "listening"
  /\ VerdictConfidenceNotNumeric =>
       ~should_create /\ ticket_info = NoTicketInfo /\ ~escaped

C5_Witness ==
  /\ VerdictFlag
  /\ VerdictConfidenceNotNumeric
  /\ log = <<AnalysisError>>

\* C6 as stated: in a startup that ends in a missing-secret error no remote
\* client has been constructed.
C6_Original == pc = "failed" => clients = {}

\* C6 amended: a startup with a missing secret fails with an error before
\* the client that needs the secret is constructed and before the Socket
\* Mode connection is opened, so no event is ever received; the clients
\* whose secrets are checked earlier (the Slack app, then the tracker, then
\* the model client) have by then been constructed.
C6_FailsBeforeTheClientOfTheMissingSecret ==
  /\ "slack_app" \in clients =>
       {"SLACK_BOT_TOKEN", "SLACK_SIGNING_SECRET"} \subseteq env
  /\ "jira" \in clients =>
       {"JIRA_EMAIL", "JIRA_API_TOKEN"} \subseteq env /\ "slack_app" \in clients
  /\ "anthropic" \in clients =>
       "ANTHROPIC_API_KEY" \in env /\ "jira" \in clients
  /\ "socket_mode" \in clients => env = Secrets
  /\ pc = "failed" => startup_error # None /\ env # Secrets
  /\ env # Secrets =>
       pc \in {"init_slack", "init_jira", "init_anthropic", "start", "failed"}

C6_Witness ==
  /\ pc = "failed"
  /\ clients = {"slack_app", "jira", "anthropic"}
  /\ env = Secrets \ {"SLACK_APP_TOKEN"}

\* C7: when the tracker rejects the priority field, issue creation still
\* succeeds and the message gets an issue.
C7_PriorityBestEffort ==
  (\E i \in Creates : calls[i].result = "priority_rejected") =>
     issue # NoIssue /\ created[MsgOf(event)] > 0

\* C8 as stated: no exception escapes handle_message.
C8_Original == ~escaped

\* the handler's variables as they are when the handling of an event starts
FreshLocals ==
  /\ channel_name = None /\ response = NoResponse /\ result.kind = "none"
  /\ ~should_create /\ ticket_info = NoTicketInfo /\ user = NoUser
  /\ issue = NoIssue /\ current_status = None /\ target = NoTransition
  /\ calls = <<>> /\ log = <<>> /\ ~escaped

\* C8 amended: every exception raised after the channel lookup (by the
\* classification, the user lookup, the issue creation, the status
\* transition or a notification post) is caught and logged and does not
\* escape handle_message; an exception of the channel-name lookup is not
\* caught and escapes handle_message, unlogged; in both cases the next event
\* starts from a fresh state.
C8_OnlyChannelLookupEscapes ==
  /\ escaped <=>
       (calls # <<>> /\ calls[1].op = "conversations_info" /\ Failed(1))
  /\ escaped => Len(calls) = 1 /\ log = <<>> /\ pc = "listening"
  /\ \A i \in 1..Len(calls) :
       Failed(i) /\ calls[i].op # "conversations_info" =>
         /\ ~escaped
         /\ pc # "parse" => \E j \in 1..Len(log) : log[j].level = "error"
  /\ pc = "conversations_info" => FreshLocals

C8_Witness ==
  /\ EventDone
  /\ Delivered = 2
  /\ \E i \in Creates : Failed(i)
  /\ log = <<ProcessingError>>
  /\ ~escaped

\* C9: when the status read after the refresh equals the desired status,
\* no transition call is made and the available transitions are not
\* queried, whatever status the issue returned by the create call carried.
C9_NoTransitionWhenAlreadyThere ==
  \A i \in CallsOf("issue") :
    ~Failed(i) /\ calls[i].status = initial_status =>
      CallsOf("transitions") = {} /\ CallsOf("transition_issue") = {}

C9_Witness ==
  /\ EventDone
  /\ \E i \in CallsOf("issue") : ~Failed(i) /\ calls[i].status = initial_status
  /\ \E i \in Creates : ~Failed(i) /\ calls[i].status # initial_status

\* C10: when none of the available transitions targets the desired status
\* (an empty list included), no transition call is made, a warning with the
\* issue key, the current status and every available target name is logged,
\* nothing is raised and the notification step still runs.
C10_NoMatchingTransition ==
  \A i \in CallsOf("transitions") :
    ~Failed(i) /\
    (\A k \in 1..Len(calls[i].returned) : calls[i].returned[k].to # initial_status)
    =>
      /\ CallsOf("transition_issue") = {}
      /\ \E j \in 1..Len(log) :
           /\ log[j].level = "warning"
           /\ log[j].key = calls[i].key
           /\ log[j].current = current_status
           /\ log[j].available =
                [k \in 1..Len(calls[i].returned) |-> calls[i].returned[k].to]
      /\ \A j \in 1..Len(log) : log[j].level = "error" => log[j] = NotificationError
      /\ ~escaped
      /\ pc \in {"post_broadcast", "post_reply", "listening"}
      /\ pc # "post_broadcast" => Posts # {}

C10_Witness ==
  /\ EventDone
  /\ \E i \in CallsOf("transitions") :
       /\ ~Failed(i)
       /\ Len(calls[i].returned) = 2
       /\ \A k \in 1..2 : calls[i].returned[k].to # initial_status
  /\ CallsOf("transition_issue") = {}
  /\ Cardinality(Posts) = 2

StatusOps == {"issue", "transitions", "transition_issue"}
\* a create call that returned an issue precedes call i
AfterSuccessfulCreate(i) == \E j \in Creates : j < i /\ ~Failed(j)
\* transition list ts has a transition whose target is the desired status
HasMatch(ts) == \E k \in 1..Len(ts) : ts[k].to = initial_status
\* the first listed transition of ts whose target is the desired status
FirstMatch(ts) ==
  ts[CHOOSE k \in 1..Len(ts) :
       /\ ts[k].to = initial_status
       /\ \A l \in 1..(k - 1) : ts[l].to # initial_status]

\* C11: the status step (status fetch, transition query, transition call)
\* runs only when an initial status is configured and only after the create
\* call returned an issue; when the fetched status differs from the desired
\* one and an available transition targets it, exactly one transition call
\* is made, with the id of the first listed transition whose target is the
\* desired status; with no initial status configured none of the three
\* calls is made.
C11_TransitionStep ==
  /\ initial_status = None => \A i \in 1..Len(calls) : calls[i].op \notin StatusOps
  /\ \A i \in 1..Len(calls) : calls[i].op \in StatusOps => AfterSuccessfulCreate(i)
  /\ Cardinality(CallsOf("transition_issue")) <= 1
  /\ \A i \in CallsOf("issue"), j \in CallsOf("transitions") :
       /\ ~Failed(i) /\ calls[i].status # initial_status
       /\ ~Failed(j) /\ HasMatch(calls[j].returned)
       /\ pc # "transition_issue"
       => /\ Cardinality(CallsOf("transition_issue")) = 1
          /\ \A t \in CallsOf("transition_issue") :
               calls[t].id = FirstMatch(calls[j].returned).id

C11_Witness ==
  /\ EventDone
  /\ \E j \in CallsOf("transitions") :
       /\ Len(calls[j].returned) = 2
       /\ calls[j].returned[1].to = initial_status
       /\ calls[j].returned[2].to = initial_status
       /\ calls[j].returned[1].id # calls[j].returned[2].id
       /\ \E t \in CallsOf("transition_issue") :
            calls[t].id = calls[j].returned[1].id

InLog(l) == \E j \in 1..Len(log) : log[j] = l

\* C12: a failure of the broadcast post or of the threaded reply is logged
\* and not raised out of _send_notification: it does not reach the except
\* branch of _process_message, which completes, and nothing leaves the
\* handler.
C12_NotificationBestEffort ==
  \A i \in Posts :
    Failed(i) =>
      /\ InLog(NotificationError)
      /\ ~InLog(ProcessingError)
      /\ ~escaped
      /\ pc = "listening"
      /\ issue # NoIssue

C12_Witness ==
  /\ EventDone
  /\ Cardinality(Posts) = 1
  /\ \E i \in Posts : Failed(i) /\ calls[i].text.kind = "broadcast"
  /\ InLog(NotificationError)

\* after an issue was created for the message: one create call, the issue
\* in the tracker, only status and notification calls after it, nothing
\* raised into _process_message, and the broadcast post attempted by the
\* time the handling ends
IssueKeptAndNotified ==
  issue # NoIssue =>
    /\ Cardinality(Creates) = 1
    /\ created[MsgOf(event)] >= 1
    /\ \A i \in 1..Len(calls) :
         AfterSuccessfulCreate(i) =>
           calls[i].op \in StatusOps \cup {"chat_postMessage"}
    /\ ~InLog(ProcessingError)
    /\ pc \in {"issue", "transitions", "transition_issue", "post_broadcast",
               "post_reply", "listening"}
    /\ pc \in {"post_reply", "listening"} => Posts # {}

\* C13: once an issue has been created for a message, a failure of the
\* status transition or of a notification post causes no delete, rollback
\* or second create call: the issues the tracker holds never decrease and
\* do not change in the rest of the handling, and a failed or impossible
\* transition does not prevent the notification posts from being attempted.
C13_NoRollback ==
  [][ /\ \A m \in Messages : created'[m] >= created[m]
      /\ issue # NoIssue /\ pc # "listening" => created' = created
      /\ IssueKeptAndNotified' ]_vars

C13_Witness ==
  /\ EventDone
  /\ issue # NoIssue
  /\ \E i \in CallsOf("transition_issue") : Failed(i)
  /\ Cardinality(Posts) = 2
  /\ created[MsgOf(event)] >= 1

\* the place of a call in the pipeline
Rank(c) ==
  CASE c.op = "conversations_info" -> 1
    [] c.op = "messages_create" -> 2
    [] c.op = "users_info" -> 3
    [] c.op = "create_issue" -> 4
    [] c.op = "issue" -> 5
    [] c.op = "transitions" -> 6
    [] c.op = "transition_issue" -> 7
    [] c.op = "chat_postMessage" /\ c.text.kind = "broadcast" -> 8
    [] OTHER -> 9
Broadcasts == { i \in Posts : calls[i].text.kind = "broadcast" }
Replies == { i \in Posts : calls[i].text.kind = "reply" }

\* C14: the external calls of one handling occur in the order channel
\* lookup, classification, user lookup, issue create, status transition
\* (when configured), broadcast post, threaded reply; no post is made unless
\* the create call of the message returned; when every call succeeds, a
\* positive verdict yields exactly one issue, one broadcast post to the
\* notification channel and one reply in the source channel anchored at the
\* timestamp of the original message.
C14_PipelineOrder ==
  /\ \A i \in 1..(Len(calls) - 1) : Rank(calls[i]) < Rank(calls[i + 1])
  /\ \A i \in Posts : AfterSuccessfulCreate(i)
  /\ EventDone /\ VerdictFlag /\ VerdictConfident
       /\ (\A i \in 1..Len(calls) : ~Failed(i))
     => /\ Cardinality(Creates) = 1
        /\ created[MsgOf(event)] >= 1
        /\ Cardinality(Posts) = 2
        /\ Cardinality(Broadcasts) = 1
        /\ Cardinality(Replies) = 1
        /\ \A i \in Broadcasts :
             calls[i].channel = notification_channel /\ calls[i].thread_ts = 0
        /\ \A i \in Replies :
             /\ calls[i].channel = ChannelNameOf(event.channel)
             /\ calls[i].thread_ts = event.ts

C14_Witness ==
  /\ EventDone
  /\ Len(calls) = 9
  /\ \A i \in 1..Len(calls) : ~Failed(i)
  /\ Cardinality(Replies) = 1

\* C15: a response wrapped in a triple-backtick fence, with or without a
\* language tag, is parsed to the same verdict, gate decision and ticket
\* fields as the unwrapped JSON of the same payload, for every payload,
\* those whose strings contain triple backticks included.
C15_FencedParsesAsUnwrapped ==
  /\ pc = "parse"
  /\ response.kind = "text"
  /\ response.text \in FencedTexts(Serialise(response.payload))
  => LET wrapped == AnalyzeMessage(response)
         unwrapped ==
           AnalyzeMessage([response EXCEPT !.text = Serialise(response.payload)])
     IN /\ wrapped.result.kind = unwrapped.result.kind
        /\ wrapped.should_create = unwrapped.should_create
        /\ wrapped.raised = unwrapped.raised
        /\ wrapped.should_create => wrapped.ticket_info = unwrapped.ticket_info

\* C16: the excerpt of the broadcast post is the whole message with no
\* ellipsis when the message has at most 200 characters, and its first 200
\* characters followed by an ellipsis when it has more; the excerpt never
\* holds more than 200 characters of the message.
C16_ExcerptTruncation ==
  \A i \in Broadcasts :
    LET n == TextOf(event)
        excerpt == calls[i].text.excerpt
    IN /\ n <= 200 => excerpt.shown = n /\ ~excerpt.ellipsis
       /\ n > 200 => excerpt.shown = 200 /\ excerpt.ellipsis
       /\ excerpt.shown <= 200

C16_Witness ==
  /\ TextOf(event) = 201
  /\ \E i \in Broadcasts :
       calls[i].text.excerpt.shown = 200 /\ calls[i].text.excerpt.ellipsis

\* C17: the threaded reply is attempted only after the broadcast post
\* succeeded; when the broadcast post fails the reply is never posted for
\* the message; a failed reply leaves the broadcast already sent in place
\* and ends the handling.
C17_ReplyOnlyAfterBroadcast ==
  /\ \A i \in Replies : \E j \in Broadcasts : j < i /\ ~Failed(j)
  /\ \A j \in Broadcasts : Failed(j) => Replies = {} /\ pc = "listening"
  /\ \A i \in Replies :
       Failed(i) =>
         /\ Cardinality(Broadcasts) = 1
         /\ \A j \in Broadcasts : ~Failed(j)
         /\ i = Len(calls)
         /\ pc = "listening"

C17_Witness ==
  /\ EventDone
  /\ \E j \in Broadcasts : Failed(j)
  /\ Replies = {}
  /\ issue # NoIssue

TicketInfoKeys == {"summary", "description", "issue_type", "priority"}

\* C18: _analyze_message returns either (True, ticket_info) with ticket_info
\* a mapping that holds summary, description, issue_type and priority, or
\* (False, None); the flag is never true with a None payload, so the create
\* path of _process_message always has a ticket_info to read.
C18_FlagAndPayloadAgree ==
  /\ should_create => DOMAIN ticket_info = TicketInfoKeys
  /\ ~should_create => ticket_info = NoTicketInfo
  /\ pc \in {"users_info", "create_issue"} \/ Creates # {} =>
       should_create /\ DOMAIN ticket_info = TicketInfoKeys

C18_Witness ==
  /\ pc = "create_issue"
  /\ should_create
  /\ DOMAIN ticket_info = TicketInfoKeys
  /\ ticket_info.priority = default_priority
====
